---- MODULE Spec2Model ----
(***************************************************************************)
(* Model of the monitoring core of adp-kpi-monitoring:                     *)
(*   main.py      CheckManager (start, run_check, log_result,              *)
(*                handle_failure, handle_warning, save_aggregate_results)  *)
(*                and the monitor classes behind check()/response_time()   *)
(*   handlers.py  StrategyFactory and the three strategy handlers          *)
(*   api.py       read_results, the reader of aggregate_results.json       *)
(*                                                                         *)
(* The main thread runs CheckManager.start; every worker thread runs one   *)
(* run_check.  CPython switches threads between bytecodes, so every read   *)
(* or write of state shared between threads is its own step; thread-local  *)
(* computation is folded into the step that follows it.                    *)
(*                                                                         *)
(* main.py:377 spells the thread constructor with a Cyrillic letter inside *)
(* the identifier; main.py binds only Thread (line 10).  Whether that name *)
(* is bound when start() runs is the variable nameBound: with              *)
(* nameBound = FALSE (the module as shipped) the first spawn raises        *)
(* NameError and start() ends; nameBound = TRUE is the module with the     *)
(* name bound to threading.Thread, which is what every statement about     *)
(* the workers is about.                                                   *)
(*                                                                         *)
(* config.py is not among the sources; servers, chats and the thresholds   *)
(* are modelled from their uses and from the specification's description.  *)
(***************************************************************************)
EXTENDS Integers, Sequences, FiniteSets, TLC

\* ------------------------------------------------------------------ bounds
\* Number of rounds of the while-True loop of start() that are explored.
MaxRounds == 2

\* ----------------------------------------------------------- configuration
\* config.response_time_limit: global threshold of the non-resource checks.
response_time_limit == 3

\* config.resourse_limits: threshold per resource check, keyed by check name.
resourse_limits == [CPU |-> 3, RAM |-> 3]

\* config.chats: the alert recipients.
chats == <<"chat1", "chat2">>

\* Four server lists (config.servers).  ConfigA: two checks of the same
\* server TG1 and no TG2 entry; ConfigB: TG1 and TG2, one service check each;
\* ConfigC: a resource check and a check of an unrecognized type; ConfigD:
\* one port check; ConfigE: one ping check.
ConfigA ==
  << [name |-> "TG1",
      checks |-> << [name |-> "BOT", type |-> "service"],
                    [name |-> "CPU", type |-> "cpu"] >>] >>

ConfigB ==
  << [name |-> "TG1", checks |-> << [name |-> "BOT", type |-> "service"] >>],
     [name |-> "TG2", checks |-> << [name |-> "BOT", type |-> "service"] >>] >>

ConfigC ==
  << [name |-> "WEB1",
      checks |-> << [name |-> "CPU",  type |-> "cpu"],
                    [name |-> "HTTP", type |-> "http"] >>] >>

ConfigD ==
  << [name |-> "WEB1", checks |-> << [name |-> "PORT", type |-> "telnet"] >>] >>

ConfigE ==
  << [name |-> "WEB2", checks |-> << [name |-> "PING", type |-> "ping"] >>] >>

Configs ==
  [A |-> ConfigA, B |-> ConfigB, C |-> ConfigC, D |-> ConfigD, E |-> ConfigE]

VARIABLES
  cfg,                \* which server list config.servers holds
  nameBound,          \* is the constructor name of main.py:377 bound?
  mainPc,             \* position of the main thread inside start()
  round,              \* number of the current iteration of the while loop
  spawnIdx,           \* position of the nested for loops of lines 375-379
  joinIdx,            \* position of the for loop of lines 381-382
  threads,            \* self.threads: the spawned workers, in order
  w,                  \* the worker threads: one run_check each
  aggregate_results,  \* self.aggregate_results without 'last-check-time'
  last_check_time,    \* self.aggregate_results['last-check-time'], 0: unset
  file,               \* ./aggregate_results.json
  logger_handlers     \* len(logging.getLogger(name).handlers), per server

vars == << cfg, logger_handlers, nameBound, mainPc, round, spawnIdx, joinIdx, threads, w,
           aggregate_results, last_check_time, file >>

\* ---------------------------------------------------------------- helpers
servers == Configs[cfg]

RECURSIVE FlattenFrom(_, _, _)
\* The (server, check) pairs in the order of the loops of lines 375-376.
FlattenFrom(srv, s, c) ==
  IF s > Len(srv) THEN << >>
  ELSE IF c > Len(srv[s].checks) THEN FlattenFrom(srv, s + 1, 1)
  ELSE << [server |-> srv[s].name, check |-> srv[s].checks[c]] >>
       \o FlattenFrom(srv, s, c + 1)

Pairs == FlattenFrom(servers, 1, 1)

NPairs == Len(Pairs)

\* The if/elif chain of run_check, lines 277-290.
Recognized(type) ==
  type \in {"ping", "telnet", "service", "cpu", "ram", "disk_space"}

\* check['type'] in 'cpu ram disk_space' (lines 295, 300): a substring test;
\* of the recognized types exactly these three are substrings of the literal.
InResourceLiteral(type) == type \in {"cpu", "ram", "disk_space"}

\* ------------------------------------------------------------ the probes
\* What monitor.check() can do, per monitor class.  ServerPingMonitor.check
\* (lines 46-54) has no try: subprocess.run may raise.  TelnetMonitor.check
\* (86-98) and ServiceMonitor.check (137-156) catch everything and return
\* False.  CPUMonitor, RAMMonitor and DiskMonitor (173-180, 199-206, 230-237)
\* return True.
CheckOutcomes(type) ==
  CASE type = "ping" -> {"true", "false", "raise"}
    [] type \in {"telnet", "service"} -> {"true", "false"}
    [] OTHER -> {"true"}

\* What monitor.response_time() can do.  ServerPingMonitor (56-70): the
\* parsed round trip, the sentinel -1.0, or float()/decode raising.
\* TelnetMonitor (100-115): the elapsed time, never raises.  ServiceMonitor
\* (158-165): 0.  The psutil readings (182-191, 208-216, 239-247) may raise.
\* Values are small integers around the thresholds.
RTOutcomes(type) ==
  CASE type = "ping" ->
         {[raise |-> FALSE, v |-> -1], [raise |-> FALSE, v |-> 3],
          [raise |-> TRUE, v |-> 0]}
    [] type = "telnet" -> {[raise |-> FALSE, v |-> 2], [raise |-> FALSE, v |-> 3]}
    [] type = "service" -> {[raise |-> FALSE, v |-> 0]}
    [] OTHER ->
         {[raise |-> FALSE, v |-> 2], [raise |-> FALSE, v |-> 3],
          [raise |-> TRUE, v |-> 0]}

\* ------------------------------------------------------------ the workers
\* A worker thread before thread.start(): nothing of run_check has happened.
\*   checkRet    what check() returned ("none" until it has)
\*   probed, rt  response_time() has returned, and its value
\*   recorded    the status log_result appended; appends: how many appends
\*   escalation  handle_failure / handle_warning was called
\*   strategy    what get_strategy returned; handled: handler.handle was called
\*   env1, env2  what the remote hosts did in the two migration steps
\*   ret1, ret2  what connect_and_disable/enable_services returned
\*   message     the alert text, a sequence of lines
\*   broadcasts  number of times the loop over chats was entered
\*   posts       number of requests.post calls made
\*   raised      an exception reached the except of run_check (line 302)
Unstarted ==
  [pc |-> "unstarted", checkRet |-> "none", probed |-> FALSE, rt |-> 0,
   recorded |-> "none", appends |-> 0,
   escalation |-> "none", strategy |-> "none", handled |-> FALSE,
   env1 |-> "none", env2 |-> "none", ret1 |-> "none", ret2 |-> "none",
   message |-> << >>, broadcasts |-> 0, posts |-> 0, raised |-> FALSE,
   lines |-> 0, escalations |-> 0]

\* Mutant of Caught: the exception is not handled in run_check and the
\* worker never reports its end.
Caught_Unwinds(wr) == [wr EXCEPT !.raised = TRUE, !.pc = "unwinding"]

\* except Exception as e: logging.error(e)  (lines 302-303): run_check ends.
Caught(wr) == [wr EXCEPT !.raised = TRUE, !.pc = "done"]

\* Mutant of StatusOf: the two status texts exchanged.
StatusOf_Swapped(result) == IF result THEN "Failure" ELSE "Success"

\* 'Success' if result else 'Failure'  (line 331).
StatusOf(result) == IF result THEN "Success" ELSE "Failure"

\* The dict appended by log_result, lines 329-333.  round(response_time, 3)
\* leaves the integer readings of the model unchanged.
Outcome(check_name, result, response_time) ==
  [check_name |-> check_name, result |-> StatusOf(result),
   response_time |-> response_time]

\* One line of an alert text.
Line(text, server_name, check_name, value) ==
  [text |-> text, server |-> server_name, check |-> check_name, value |-> value]

\* The literal passed by handle_warning (line 358).
WarningArg == [kind |-> "str", val |-> "warning"]

\* json.load(file) in handle_failure (line 345): the persisted document.
DocArg(doc) == [kind |-> "doc", val |-> doc]

\* other_checks == 'warning' (handlers.py line 50): a str equals the literal
\* only if it is that text; a dict never equals a str.
IsWarningLiteral(other_checks) ==
  other_checks.kind = "str" /\ other_checks.val = "warning"

\* Mutant of get_strategy: the server name is tested before the severity.
get_strategy_ServerFirst(server_name, check_type, other_checks) ==
  IF server_name = "TG1" THEN "move_services"
  ELSE IF IsWarningLiteral(other_checks) THEN "notify_warning"
  ELSE "notify_failure"

\* StrategyFactory.get_strategy, handlers.py lines 38-55.
get_strategy(server_name, check_type, other_checks) ==
  IF IsWarningLiteral(other_checks) THEN "notify_warning"
  ELSE IF server_name = "TG1" THEN "move_services"
  ELSE "notify_failure"

\* UNCHANGED for a step that only moves one worker.
OnlyWorker ==
  UNCHANGED << cfg, logger_handlers, nameBound, mainPc, round, spawnIdx, joinIdx, threads,
               aggregate_results, last_check_time, file >>

\* log_result lines 315-316: logger = logging.getLogger(server_name) and
\* the test "if not logger.handlers": where log_result continues.
LogEntry(i) ==
  IF logger_handlers[Pairs[i].server] = 0 THEN "log_add_handler"
  ELSE "log_info"

\* Mutant of RunCheckCheck: the outcome is logged right after check(),
\* before response_time() is called.
RunCheckCheck_SkipsResponseTime(i) ==
  /\ w[i].pc = "start"
  /\ LET type == Pairs[i].check.type IN
       IF ~Recognized(type)
       THEN w' = [w EXCEPT ![i].pc = "done"]
       ELSE \E o \in CheckOutcomes(type) :
              w' = [w EXCEPT ![i] =
                      IF o = "raise" THEN Caught(@)
                      ELSE [@ EXCEPT !.checkRet = o, !.pc = LogEntry(i)]]
  /\ OnlyWorker

\* run_check lines 276-292: the dispatch on check['type'] and monitor.check().
\* An unrecognized type returns at line 290 before anything is probed.
RunCheckCheck(i) ==
  /\ w[i].pc = "start"
  /\ LET type == Pairs[i].check.type IN
       IF ~Recognized(type)
       THEN w' = [w EXCEPT ![i].pc = "done"]
       ELSE \E o \in CheckOutcomes(type) :
              w' = [w EXCEPT ![i] =
                      IF o = "raise" THEN Caught(@)
                      ELSE [@ EXCEPT !.checkRet = o, !.pc = "response_time"]]
  /\ OnlyWorker

\* run_check line 293: monitor.response_time(), called after check() returned,
\* and the entry into log_result (line 294).  response_time() touches no
\* state shared between the threads, so it is one step with the read of
\* logger.handlers that follows it.
RunCheckResponseTime(i) ==
  /\ w[i].pc = "response_time"
  /\ \E o \in RTOutcomes(Pairs[i].check.type) :
       w' = [w EXCEPT ![i] =
               IF o.raise THEN Caught(@)
               ELSE [@ EXCEPT !.rt = o.v, !.probed = TRUE, !.pc = LogEntry(i)]]
  /\ OnlyWorker

\* log_result lines 317-319: a new FileHandler is attached to the server's
\* logger, because the test of line 316 found none when this worker made it.
LogAddHandler(i) ==
  /\ w[i].pc = "log_add_handler"
  /\ logger_handlers' =
       [logger_handlers EXCEPT ![Pairs[i].server] = @ + 1]
  /\ w' = [w EXCEPT ![i].pc = "log_info"]
  /\ UNCHANGED << cfg, nameBound, mainPc, round, spawnIdx, joinIdx, threads,
                  aggregate_results, last_check_time, file >>

\* log_result lines 321-326: logger.info(...).  Logger.callHandlers emits
\* the record once through every handler attached to the logger, so the
\* server's log file receives one line per attached handler.
LogInfo(i) ==
  /\ w[i].pc = "log_info"
  /\ w' = [w EXCEPT ![i].lines = logger_handlers[Pairs[i].server],
                    ![i].pc = "log_test"]
  /\ OnlyWorker

\* log_result line 327: if server_name not in self.aggregate_results.
LogResultTest(i) ==
  /\ w[i].pc = "log_test"
  /\ LET missing == Pairs[i].server \notin DOMAIN aggregate_results IN
       w' = [w EXCEPT ![i].pc = IF missing THEN "log_init" ELSE "log_append"]
  /\ OnlyWorker

\* log_result line 328: self.aggregate_results[server_name] = [], executed
\* because the test of line 327 succeeded when this worker made it.
LogResultInit(i) ==
  /\ w[i].pc = "log_init"
  /\ aggregate_results' = (Pairs[i].server :> << >>) @@ aggregate_results
  /\ w' = [w EXCEPT ![i].pc = "log_append"]
  /\ UNCHANGED << cfg, logger_handlers, nameBound, mainPc, round, spawnIdx, joinIdx, threads,
                  last_check_time, file >>

\* log_result lines 329-333: the append, and the return to run_check.  The
\* subscript and the append are adjacent; a re-initialisation by another
\* worker between them leaves the same list as one right after the append.
LogResultAppend(i) ==
  /\ w[i].pc = "log_append"
  /\ LET p == Pairs[i]
         o == Outcome(p.check.name, w[i].checkRet = "true", w[i].rt)
     IN /\ aggregate_results' =
             [aggregate_results EXCEPT ![p.server] = Append(@, o)]
        /\ w' = [w EXCEPT ![i].recorded = o.result,
                          ![i].appends = @ + 1,
                          ![i].pc = "classify"]
  /\ UNCHANGED << cfg, logger_handlers, nameBound, mainPc, round, spawnIdx, joinIdx, threads,
                  last_check_time, file >>

\* response_time >= response_time_limit  (line 298).
OverLimit(response_time) == response_time >= response_time_limit

\* Mutant of OverResourceLimit: a strict comparison.
OverResourceLimit_Strict(check_name, response_time) ==
  response_time > resourse_limits[check_name]

\* response_time >= resourse_limits[check_name]  (line 300).
OverResourceLimit(check_name, response_time) ==
  response_time >= resourse_limits[check_name]

\* handle_failure, lines 344-347, up to the call of handler.handle.  open()
\* raises when the file does not exist, json.load when it does not parse.
\* NotifyWarningStrategy.handle takes a value that handle_failure does not
\* pass, so calling it raises TypeError.
HandleFailure(wr, server_name, check_name, check_type) ==
  LET called == [wr EXCEPT !.escalation = "failure", !.escalations = @ + 1] IN
  IF file.state # "complete" THEN Caught(called)
  ELSE LET handler == get_strategy(server_name, check_type, DocArg(file)) IN
       CASE handler = "move_services" ->
              [called EXCEPT !.strategy = handler, !.handled = TRUE,
                 !.message = << Line("NOT_RESPONDING", server_name, check_name, 0) >>,
                 !.pc = "move_step1"]
         [] handler = "notify_failure" ->
              [called EXCEPT !.strategy = handler, !.handled = TRUE,
                 !.message = << Line("NOT_RESPONDING", server_name, check_name, 0) >>,
                 !.pc = "notify"]
         [] OTHER -> Caught([called EXCEPT !.strategy = handler])

\* handle_warning, lines 358-359, up to the call of handler.handle.
HandleWarning(wr, server_name, check_name, value) ==
  LET handler == get_strategy(server_name, check_name, WarningArg) IN
  IF handler = "notify_warning"
  THEN [wr EXCEPT !.escalation = "warning", !.escalations = @ + 1,
          !.strategy = handler,
          !.handled = TRUE,
          !.message = << Line("WARNING", server_name, check_name, value) >>,
          !.pc = "notify"]
  ELSE Caught([wr EXCEPT !.escalation = "warning", !.escalations = @ + 1,
                 !.strategy = handler])

\* Mutant of Classify: the response-time test of a non-resource check is an
\* "if" of its own instead of the "elif" of the failure test, so a failed
\* check that was slow as well is escalated a second time, as a warning.
Classify_TwoTests(wr, p) ==
  LET type == p.check.type
      result == wr.checkRet = "true"
  IN IF ~InResourceLiteral(type)
     THEN LET first == IF ~result
                       THEN HandleFailure(wr, p.server, p.check.name, type)
                       ELSE wr
          IN IF OverLimit(wr.rt)
             THEN HandleWarning(first, p.server, p.check.name, wr.rt)
             ELSE [first EXCEPT !.pc = IF result THEN "done" ELSE @]
     ELSE IF p.check.name \notin DOMAIN resourse_limits
          THEN Caught(wr)
          ELSE IF OverResourceLimit(p.check.name, wr.rt)
               THEN HandleWarning(wr, p.server, p.check.name, wr.rt)
               ELSE [wr EXCEPT !.pc = "done"]

\* run_check lines 295-301: the classification of the logged outcome.
Classify(wr, p) ==
  LET type == p.check.type
      result == wr.checkRet = "true"
  IN IF ~InResourceLiteral(type)
     THEN IF ~result
          THEN HandleFailure(wr, p.server, p.check.name, type)
          ELSE IF OverLimit(wr.rt)
               THEN HandleWarning(wr, p.server, p.check.name, wr.rt)
               ELSE [wr EXCEPT !.pc = "done"]
     ELSE IF p.check.name \notin DOMAIN resourse_limits
          THEN Caught(wr)
          ELSE IF OverResourceLimit(p.check.name, wr.rt)
               THEN HandleWarning(wr, p.server, p.check.name, wr.rt)
               ELSE [wr EXCEPT !.pc = "done"]

\* run_check after log_result returned: lines 295-301 and, through them,
\* handle_failure or handle_warning up to handler.handle.  The file is only
\* written by the main thread, so reading it is one step.
RunCheckClassify(i) ==
  /\ w[i].pc = "classify"
  /\ w' = [w EXCEPT ![i] = Classify(@, Pairs[i])]
  /\ OnlyWorker

\* --------------------------------------------------------- the handlers
\* for id in chats: requests.post(url, json=data)  (handlers.py lines 75-80,
\* 101-106, 258-263).  post has no try around it: k posts succeed and, when
\* k < Len(chats), the next one raises and ends the loop.
Broadcast(wr, k) ==
  LET failed == k < Len(chats) IN
  [wr EXCEPT !.broadcasts = @ + 1,
             !.posts = @ + (IF failed THEN k + 1 ELSE k),
             !.raised = failed,
             !.pc = "done"]

\* NotifyFailureStrategy.handle (66-80) and NotifyWarningStrategy.handle
\* (91-106).
NotifyHandle(i) ==
  /\ w[i].pc = "notify"
  /\ \E k \in 0..Len(chats) : w' = [w EXCEPT ![i] = Broadcast(@, k)]
  /\ OnlyWorker

\* next((server for server in servers if server['name'] == name), None),
\* handlers.py lines 125-126: the position of the first entry, 0 for None.
ServerIndex(name) ==
  LET S == {s \in 1..Len(servers) : servers[s].name = name} IN
  IF S = {} THEN 0 ELSE CHOOSE s \in S : \A t \in S : s <= t

\* disable_services, lines 213-215: one stop per check of type 'service'.
StopCommands(idx) ==
  Cardinality({c \in 1..Len(servers[idx].checks) :
                 servers[idx].checks[c].type = "service"})

\* The literal list of line 134; enable_services issues one start for each.
FailoverServices == << "adp-client-bot.service", "adp-shop-bot.service" >>

\* What the remote host can do to one step of the migration:
\*   refused    ssh.connect raises; connect_ssh logs and returns None
\*   ok         the session opens and every command succeeds
\*   cmd_err    a command fails (stderr text, or exec_command raises and
\*              manage_service logs it, lines 244-248)
\*   cmd_raise  exec_command raises and the logging of line 248 raises too
\*              (no transport left for getpeername): manage_service raises
\* The last two need a command to be issued.
SshOutcomes(ncmds) ==
  IF ncmds = 0 THEN {"refused", "ok"}
  ELSE {"refused", "ok", "cmd_err", "cmd_raise"}

\* connect_and_disable_services, lines 141-159.  With server_info None the
\* subscript in connect_ssh raises, the except of connect_ssh subscripts
\* None again (line 202) and so does the except of line 158: TypeError
\* leaves the function.
connect_and_disable_services(idx, env) ==
  IF idx = 0 THEN "raise"
  ELSE CASE env = "refused" -> "False"
         [] env \in {"ok", "cmd_err"} -> "True"
         [] OTHER -> "False"

\* connect_and_enable_services, lines 161-180.  return False sits inside the
\* except clause: a refused connection falls off the end and returns None.
connect_and_enable_services(idx, env) ==
  IF idx = 0 THEN "raise"
  ELSE CASE env = "refused" -> "None"
         [] env \in {"ok", "cmd_err"} -> "True"
         [] OTHER -> "False"

\* ssh = self.connect_ssh(server_info) returned a session (lines 152-153,
\* 173-174): every outcome but a refused connection.
SessionOpened(env) == env \in {"ok", "cmd_err", "cmd_raise"}

\* ssh.close() (lines 155, 176) is reached: it follows disable_services /
\* enable_services inside the try, so it is skipped when they raise.
SessionClosed(env) == env \in {"ok", "cmd_err"}

\* Truth value of what a step returned, as the if of lines 129, 134 sees it.
Truthy(ret) == ret = "True"

\* Mutant of MoveStep1: when the first step fails the second is skipped.
MoveStep1_SkipOnFailure(i) ==
  /\ w[i].pc = "move_step1"
  /\ LET idx == ServerIndex("TG1") IN
     \E env \in (IF idx = 0 THEN {"none"} ELSE SshOutcomes(StopCommands(idx))) :
       LET ret == connect_and_disable_services(idx, env) IN
       w' = [w EXCEPT ![i] =
               IF ret = "raise"
               THEN Caught([@ EXCEPT !.env1 = env, !.ret1 = ret])
               ELSE [@ EXCEPT !.env1 = env, !.ret1 = ret,
                       !.message = Append(@,
                          Line(IF Truthy(ret) THEN "STOPPED_TG1" ELSE "FAILED_TG1",
                               "", "", 0)),
                       !.pc = IF Truthy(ret) THEN "move_step2" ELSE "move_send"]]
  /\ OnlyWorker

\* MoveServicesStrategy.handle lines 125-132: the first step.
MoveStep1(i) ==
  /\ w[i].pc = "move_step1"
  /\ LET idx == ServerIndex("TG1") IN
     \E env \in (IF idx = 0 THEN {"none"} ELSE SshOutcomes(StopCommands(idx))) :
       LET ret == connect_and_disable_services(idx, env) IN
       w' = [w EXCEPT ![i] =
               IF ret = "raise"
               THEN Caught([@ EXCEPT !.env1 = env, !.ret1 = ret])
               ELSE [@ EXCEPT !.env1 = env, !.ret1 = ret,
                       !.message = Append(@,
                          Line(IF Truthy(ret) THEN "STOPPED_TG1" ELSE "FAILED_TG1",
                               "", "", 0)),
                       !.pc = "move_step2"]]
  /\ OnlyWorker

\* MoveServicesStrategy.handle lines 134-137: the second step.
MoveStep2(i) ==
  /\ w[i].pc = "move_step2"
  /\ LET idx == ServerIndex("TG2") IN
     \E env \in (IF idx = 0 THEN {"none"} ELSE SshOutcomes(Len(FailoverServices))) :
       LET ret == connect_and_enable_services(idx, env) IN
       w' = [w EXCEPT ![i] =
               IF ret = "raise"
               THEN Caught([@ EXCEPT !.env2 = env, !.ret2 = ret])
               ELSE [@ EXCEPT !.env2 = env, !.ret2 = ret,
                       !.message = Append(@,
                          Line(IF Truthy(ret) THEN "STARTED_TG2" ELSE "FAILED_TG2",
                               "", "", 0)),
                       !.pc = "move_send"]]
  /\ OnlyWorker

\* MoveServicesStrategy.handle line 139 and send_message, lines 250-263.
MoveSendMessage(i) ==
  /\ w[i].pc = "move_send"
  /\ \E k \in 0..Len(chats) : w' = [w EXCEPT ![i] = Broadcast(@, k)]
  /\ OnlyWorker

\* ------------------------------------------------------- the main thread
\* start() lines 375-379 with the constructor name bound: one Thread per
\* (server, check) pair is created, appended to self.threads and started.
StartSpawn ==
  /\ mainPc = "spawn"
  /\ nameBound
  /\ spawnIdx <= NPairs
  /\ threads' = Append(threads, spawnIdx)
  /\ w' = [w EXCEPT ![spawnIdx] = [Unstarted EXCEPT !.pc = "start"]]
  /\ spawnIdx' = spawnIdx + 1
  /\ mainPc' = IF spawnIdx = NPairs THEN "join" ELSE "spawn"
  /\ joinIdx' = 1
  /\ UNCHANGED << cfg, logger_handlers, nameBound, round, aggregate_results, last_check_time,
                  file >>

\* start() line 377 with the constructor name unbound: NameError leaves
\* start() and start_monitoring(); the process ends.
StartSpawnNameError ==
  /\ mainPc = "spawn"
  /\ ~nameBound
  /\ spawnIdx <= NPairs
  /\ mainPc' = "crashed"
  /\ UNCHANGED << cfg, logger_handlers, nameBound, round, spawnIdx, joinIdx, threads, w,
                  aggregate_results, last_check_time, file >>

\* Mutant of Joinable: join returns without waiting for the thread.
Joinable_NoWait(t) == TRUE

\* thread.join() returns once the thread has terminated.
Joinable(t) == w[t].pc = "done"

\* start() lines 381-382: join every thread of self.threads in order.
StartJoin ==
  /\ mainPc = "join"
  /\ joinIdx <= Len(threads)
  /\ Joinable(threads[joinIdx])
  /\ joinIdx' = joinIdx + 1
  /\ mainPc' = IF joinIdx = Len(threads) THEN "save_time" ELSE "join"
  /\ UNCHANGED << cfg, logger_handlers, nameBound, round, spawnIdx, threads, w,
                  aggregate_results, last_check_time, file >>

\* save_aggregate_results line 365: the timestamp; the round number stands
\* for the clock.
SaveSetTime ==
  /\ mainPc = "save_time"
  /\ last_check_time' = round
  /\ mainPc' = "save_open"
  /\ UNCHANGED << cfg, logger_handlers, nameBound, round, spawnIdx, joinIdx, threads, w,
                  aggregate_results, file >>

\* save_aggregate_results line 366: open(path, "w") creates the file or
\* truncates it to zero bytes.
SaveOpen ==
  /\ mainPc = "save_open"
  /\ file' = [state |-> "empty", results |-> << >>, time |-> 0]
  /\ mainPc' = "save_write"
  /\ UNCHANGED << cfg, logger_handlers, nameBound, round, spawnIdx, joinIdx, threads, w,
                  aggregate_results, last_check_time >>

\* save_aggregate_results lines 367-368: json.dumps, write, and the close
\* at the end of the with block.
SaveWrite ==
  /\ mainPc = "save_write"
  /\ file' = [state |-> "complete", results |-> aggregate_results,
              time |-> last_check_time]
  /\ mainPc' = "reset"
  /\ UNCHANGED << cfg, logger_handlers, nameBound, round, spawnIdx, joinIdx, threads, w,
                  aggregate_results, last_check_time >>

\* start() line 385: self.threads = [].  The Thread objects of the round
\* are unreachable from here on.
StartReset ==
  /\ mainPc = "reset"
  /\ threads' = << >>
  /\ w' = [i \in 1..NPairs |-> Unstarted]
  /\ mainPc' = "sleep"
  /\ UNCHANGED << cfg, logger_handlers, nameBound, round, spawnIdx, joinIdx,
                  aggregate_results, last_check_time, file >>

\* start() line 386 and the next iteration of while True.
StartSleep ==
  /\ mainPc = "sleep"
  /\ round < MaxRounds
  /\ round' = round + 1
  /\ spawnIdx' = 1
  /\ mainPc' = "spawn"
  /\ UNCHANGED << cfg, logger_handlers, nameBound, joinIdx, threads, w, aggregate_results,
                  last_check_time, file >>

\* ------------------------------------------------------------ the reader
\* api.read_results, api.py lines 6-15, run by the API process at this
\* instant: open raises when the file is missing, json.load raises on a
\* truncated file, otherwise the parsed document is returned.
read_results ==
  CASE file.state = "absent" -> "FileNotFoundError"
    [] file.state = "empty" -> "JSONDecodeError"
    [] OTHER -> "document"

\* ------------------------------------------------------- the specification
\* The file before the process starts: missing (first start) or the
\* document a previous run of the process left behind.
InitialFiles ==
  { [state |-> "absent", results |-> << >>, time |-> 0],
    [state |-> "complete", results |-> << >>, time |-> 0] }

\* CheckManager.__init__ (lines 260-264) and the entry into start().
Init ==
  /\ cfg \in DOMAIN Configs
  /\ nameBound \in BOOLEAN
  /\ mainPc = "spawn"
  /\ round = 1
  /\ spawnIdx = 1
  /\ joinIdx = 1
  /\ threads = << >>
  /\ w = [i \in 1..NPairs |-> Unstarted]
  /\ aggregate_results = << >>
  /\ last_check_time = 0
  /\ file \in InitialFiles
  /\ logger_handlers =
       [s \in {servers[k].name : k \in 1..Len(servers)} |-> 0]

\* One step of the main thread or of one worker thread.
Next ==
  \/ StartSpawn
  \/ StartSpawnNameError
  \/ StartJoin
  \/ SaveSetTime
  \/ SaveOpen
  \/ SaveWrite
  \/ StartReset
  \/ StartSleep
  \/ \E i \in 1..NPairs : RunCheckCheck(i)
  \/ \E i \in 1..NPairs : RunCheckResponseTime(i)
  \/ \E i \in 1..NPairs : LogAddHandler(i)
  \/ \E i \in 1..NPairs : LogInfo(i)
  \/ \E i \in 1..NPairs : LogResultTest(i)
  \/ \E i \in 1..NPairs : LogResultInit(i)
  \/ \E i \in 1..NPairs : LogResultAppend(i)
  \/ \E i \in 1..NPairs : RunCheckClassify(i)
  \/ \E i \in 1..NPairs : NotifyHandle(i)
  \/ \E i \in 1..NPairs : MoveStep1(i)
  \/ \E i \in 1..NPairs : MoveStep2(i)
  \/ \E i \in 1..NPairs : MoveSendMessage(i)

Spec == Init /\ [][Next]_vars

\* The interpreter keeps scheduling whichever of the main thread and the
\* started worker threads can take a step (start() has no other wait than
\* join and sleep, lines 381-386), so a behaviour does not stop while a
\* step is possible.
FairSpec == Spec /\ WF_vars(Next)

\* ================================================================ claims
Workers == 1..NPairs

NonResource(i) == Pairs[i].check.type \in {"ping", "telnet", "service"}

Resource(i) == Pairs[i].check.type \in {"cpu", "ram", "disk_space"}

InsideLogResult(i) ==
  w[i].pc \in {"log_add_handler", "log_info", "log_test", "log_init",
              "log_append"}

Running(i) == w[i].pc \notin {"unstarted", "done"}

\* C1: in every round save_aggregate_results begins only after every worker
\* launched in the round has terminated: while the flush is in progress or
\* done (up to the sleep that ends the round) no run_check is executing.
C1_FlushAfterFanIn ==
  mainPc \in {"save_time", "save_open", "save_write", "reset", "sleep"}
    => \A i \in Workers : ~Running(i)

\* C1 witness: the flush is writing the file with every pair's worker
\* spawned and terminated, one of them having logged an outcome.
C1_Witness ==
  /\ mainPc = "save_write"
  /\ Len(threads) = NPairs
  /\ \A i \in Workers : w[i].pc = "done"
  /\ \E i \in Workers : w[i].appends = 1

\* C2: once every log_result call has returned, every outcome passed to
\* log_result is present in aggregate_results[server]: no append is lost,
\* whatever the interleaving of the calls.
C2_NoLostAppend ==
  (\A j \in Workers : ~InsideLogResult(j))
    => \A i \in Workers :
         w[i].appends = 1 =>
           /\ Pairs[i].server \in DOMAIN aggregate_results
           /\ \E k \in 1..Len(aggregate_results[Pairs[i].server]) :
                aggregate_results[Pairs[i].server][k] =
                  Outcome(Pairs[i].check.name, w[i].checkRet = "true", w[i].rt)

\* C3: a reader of aggregate_results.json never observes a truncated or
\* partially written document, also while a flush is in progress.
C3_ReaderNeverSeesTorn == read_results # "JSONDecodeError"

\* C4: in every round each pair of a recognized type contributes exactly
\* one outcome to the aggregator and each pair of an unrecognized type
\* none, whatever the probe does (succeeds, reports failure or raises).
C4_OneOutcomePerRecognizedPair ==
  \A i \in Workers :
    w[i].pc = "done" =>
      w[i].appends = (IF Recognized(Pairs[i].check.type) THEN 1 ELSE 0)

\* C5: whenever check() returned false for a non-resource check (a Failure
\* outcome was recorded), in any round including the first, a failure
\* strategy handler's handle is invoked for that pair in that round.
C5_FailureEscalated ==
  \A i \in Workers :
    (w[i].pc = "done" /\ NonResource(i) /\ w[i].checkRet = "false"
       /\ w[i].recorded = "Failure")
      => w[i].handled

\* C6: for every non-resource check the recorded status is 'Failure' if and
\* only if check() returned false, and handle_warning is called only if
\* check() returned true and response_time() >= response_time_limit.
C6_NonResourceClassification ==
  \A i \in Workers :
    NonResource(i) =>
      /\ w[i].recorded # "none" =>
           (w[i].recorded = "Failure" <=> w[i].checkRet = "false")
      /\ w[i].escalation = "warning" =>
           (w[i].checkRet = "true" /\ w[i].probed /\ w[i].rt >= response_time_limit)

\* C6 witness: a non-resource check whose check() returned true was
\* recorded as Success and, its response time having reached the limit,
\* escalated as a warning.
C6_Witness ==
  \E j \in Workers :
    /\ NonResource(j) /\ w[j].checkRet = "true" /\ w[j].recorded = "Success"
    /\ w[j].rt >= response_time_limit
    /\ w[j].escalation = "warning" /\ w[j].pc = "done"

\* C7: for every resource check the recorded status is always 'Success',
\* handle_failure is never called, and handle_warning is called if and only
\* if response_time() >= the threshold configured for that check.
C7_ResourceClassification ==
  \A i \in Workers :
    Resource(i) =>
      /\ w[i].recorded \in {"none", "Success"}
      /\ w[i].escalation # "failure"
      /\ w[i].escalation = "warning" => w[i].probed
      /\ (w[i].pc = "done" /\ w[i].recorded # "none") =>
           (w[i].escalation = "warning"
              <=> w[i].rt >= resourse_limits[Pairs[i].check.name])

\* C7 witness: a resource check whose reading equals its threshold has
\* finished with status Success and a warning escalation.
C7_Witness ==
  \E i \in Workers :
    /\ Resource(i) /\ w[i].pc = "done" /\ w[i].recorded = "Success"
    /\ w[i].rt = resourse_limits[Pairs[i].check.name]
    /\ w[i].escalation = "warning" /\ w[i].handled

\* C8: every warning escalation selects Notify-Warning, for every server
\* including TG1; every failure escalation selects Migrate-Services for
\* TG1 and Notify-Failure otherwise, whatever the persisted snapshot holds.
C8_StrategySelection ==
  \A i \in Workers :
    w[i].strategy # "none" =>
      /\ w[i].escalation = "warning" => w[i].strategy = "notify_warning"
      /\ w[i].escalation = "failure" =>
           w[i].strategy = (IF Pairs[i].server = "TG1" THEN "move_services"
                            ELSE "notify_failure")

\* C8 witness: in a round that follows a flush with recorded outcomes, TG1
\* has a warning routed to Notify-Warning and a failure routed to
\* Migrate-Services.
C8_Witness ==
  /\ file.state = "complete"
  /\ DOMAIN file.results # {}
  /\ \E i, j \in Workers :
       /\ Pairs[i].server = "TG1" /\ w[i].escalation = "warning"
       /\ w[i].strategy = "notify_warning"
       /\ Pairs[j].server = "TG1" /\ w[j].escalation = "failure"
       /\ w[j].strategy = "move_services"

\* C9: every invocation of MoveServicesStrategy.handle reaches send_message
\* before it ends, whatever step 1 and step 2 do, also when the TG1 or TG2
\* entry is missing from the configured server list.
C9_MoveAlwaysSends ==
  \A i \in Workers :
    (w[i].strategy = "move_services" /\ w[i].handled /\ w[i].pc = "done")
      => w[i].broadcasts = 1

\* C10: the alert built by MoveServicesStrategy.handle holds the original
\* failure line, then exactly one of {stopped on TG1, failed TG1} and one of
\* {started on TG2, failed TG2}, each matching the result of its step, and
\* it is broadcast exactly once per invocation.
C10_CompositeAlert ==
  \A i \in Workers :
    (w[i].strategy = "move_services" /\ w[i].handled /\ w[i].pc = "done")
      => /\ Len(w[i].message) = 3
         /\ w[i].message[1] =
              Line("NOT_RESPONDING", Pairs[i].server, Pairs[i].check.name, 0)
         /\ w[i].message[2].text =
              (IF Truthy(w[i].ret1) THEN "STOPPED_TG1" ELSE "FAILED_TG1")
         /\ w[i].message[3].text =
              (IF Truthy(w[i].ret2) THEN "STARTED_TG2" ELSE "FAILED_TG2")
         /\ w[i].broadcasts = 1

\* C11: during Migrate-Services every connection failure and every remote
\* command failure is caught inside the handler and shows in the composite
\* alert: a step is reported as successful only if its session was opened
\* and every stop/start command issued in it succeeded.
C11_SuccessOnlyIfCommandsSucceeded ==
  \A i \in Workers :
    w[i].strategy = "move_services" =>
      /\ (Len(w[i].message) >= 2 /\ w[i].message[2].text = "STOPPED_TG1")
           => w[i].env1 = "ok"
      /\ (Len(w[i].message) >= 3 /\ w[i].message[3].text = "STARTED_TG2")
           => w[i].env2 = "ok"

\* C13: in every round start() spawns and starts exactly one worker thread
\* per configured (server, check) pair and the round then proceeds to join,
\* flush and sleep; the thread list is empty when the next round begins.
C13_OneThreadPerPair ==
  /\ mainPc # "crashed"
  /\ mainPc \in {"join", "save_time", "save_open", "save_write", "reset"}
       => /\ threads = [i \in 1..NPairs |-> i]
          /\ \A i \in Workers : w[i].pc # "unstarted"
  /\ (mainPc = "spawn" /\ spawnIdx = 1) => threads = << >>

\* C14: for every message that is broadcast exactly one delivery call is
\* attempted for each configured recipient, with no retry, also when the
\* call for an earlier recipient fails.
C14_OnePostPerRecipient ==
  \A i \in Workers :
    w[i].broadcasts >= 1 =>
      (w[i].broadcasts = 1 /\ w[i].posts = Len(chats))

\* C15: within one MoveServicesStrategy.handle the steps occur in the order
\* start, step 1 ended, step 2 ended, message sent: step 2 never starts
\* before step 1 has ended, step 2 is attempted whether step 1 succeeded or
\* failed, and no message is sent before both steps have ended.
C15_MoveStepOrder ==
  \A i \in Workers :
    w[i].strategy = "move_services" =>
      /\ w[i].pc = "move_step1" =>
           (w[i].ret1 = "none" /\ w[i].ret2 = "none" /\ w[i].broadcasts = 0)
      /\ w[i].pc = "move_step2" =>
           (w[i].ret1 \in {"True", "False"} /\ w[i].ret2 = "none"
              /\ w[i].broadcasts = 0)
      /\ w[i].ret2 # "none" => w[i].ret1 \in {"True", "False"}
      /\ (w[i].pc \in {"move_send", "done"} /\ w[i].ret1 \in {"True", "False"})
           => w[i].ret2 # "none"
      /\ w[i].broadcasts > 0 =>
           (w[i].ret1 \in {"True", "False"}
              /\ w[i].ret2 \in {"True", "False", "None"})

\* C15 witness: a migration whose first step failed, whose second step
\* succeeded after it, and whose message has been sent.
C15_Witness ==
  \E i \in Workers :
    /\ w[i].strategy = "move_services" /\ w[i].pc = "done"
    /\ w[i].ret1 = "False" /\ w[i].ret2 = "True" /\ w[i].broadcasts = 1
    /\ Len(w[i].message) = 3

\* C16: within one run_check, check() completes before response_time() is
\* invoked, the outcome is recorded by log_result only after both have
\* completed, and an escalation is dispatched only after the outcome has
\* been recorded.
C16_RunCheckOrder ==
  \A i \in Workers :
    /\ w[i].pc = "response_time" => (w[i].checkRet # "none" /\ ~w[i].probed)
    /\ w[i].probed => w[i].checkRet # "none"
    /\ InsideLogResult(i) =>
         (w[i].probed /\ w[i].checkRet # "none" /\ w[i].escalation = "none")
    /\ w[i].recorded # "none" => (w[i].probed /\ w[i].checkRet # "none")
    /\ w[i].escalation # "none" => w[i].recorded # "none"

\* C16 witness: a run_check that probed, recorded a Failure and then called
\* the handler of a failure escalation.
C16_Witness ==
  \E i \in Workers :
    /\ w[i].checkRet = "false" /\ w[i].probed /\ w[i].recorded = "Failure"
    /\ w[i].escalation = "failure" /\ w[i].handled

\* Length of a server's list in a snapshot; 0 when the server has no list.
ListLen(results, s) == IF s \in DOMAIN results THEN Len(results[s]) ELSE 0

\* C17: the in-memory snapshot is never reset between rounds: when a round
\* has been joined each server's list holds everything the previous flush
\* persisted plus every outcome appended in this round, so it never gets
\* shorter and grows in every round in which the server records an outcome.
C17_ListsKeepEveryRound ==
  mainPc = "save_time" =>
    \A i \in Workers :
      LET s == Pairs[i].server IN
      ListLen(aggregate_results, s) >=
        ListLen(file.results, s)
          + Cardinality({j \in Workers : Pairs[j].server = s /\ w[j].appends = 1})

\* C19: every remote command session that was opened is closed before the
\* operation that opened it returns, also when a command raises in it.
C19_SessionsClosed ==
  \A i \in Workers :
    /\ SessionOpened(w[i].env1) => SessionClosed(w[i].env1)
    /\ SessionOpened(w[i].env2) => SessionClosed(w[i].env2)

\* C20: Migrate-Services is not deduplicated: it runs once for every failing
\* non-resource check of TG1 in every round, so every TG1 check that
\* recorded a Failure has had the stop/start sequence started for it.
C20_MigrationPerFailingCheck ==
  \A i \in Workers :
    (Pairs[i].server = "TG1" /\ NonResource(i) /\ w[i].pc = "done"
       /\ w[i].checkRet = "false" /\ w[i].recorded = "Failure")
      => (w[i].strategy = "move_services" /\ w[i].handled /\ w[i].ret1 # "none")

\* Some worker of the current round ended in run_check's except branch.
C12_RaisedSome == \E i \in Workers : w[i].raised

\* The exception stayed in its worker: the worker has ended, start() has
\* not, and once the round is joined every worker has ended and every
\* recognised check that did not raise itself has appended its outcome.
C12_Isolated ==
  /\ \A i \in Workers : w[i].raised => w[i].pc = "done"
  /\ C12_RaisedSome => mainPc # "crashed"
  /\ (C12_RaisedSome /\ mainPc \in {"save_time", "save_open", "save_write"})
       => \A j \in Workers :
            /\ w[j].pc = "done"
            /\ (Recognized(Pairs[j].check.type) /\ ~w[j].raised)
                 => w[j].appends = 1

\* The round in which a worker raised is over: start() has flushed and
\* cleared self.threads and has begun the next iteration of its loop, or
\* sleeps after the last iteration that is explored.
C12_RoundOver ==
  \/ mainPc = "spawn" /\ spawnIdx = 1
  \/ mainPc = "sleep" /\ round = MaxRounds

\* C12: an exception raised anywhere inside one run_check is caught within
\* that worker: every other worker of the round still runs to completion
\* and records its outcome, the round still reaches and finishes the flush,
\* and the next round still starts.
C12_ExceptionIsolated ==
  /\ []C12_Isolated
  /\ C12_RaisedSome ~> C12_RoundOver

\* C12 witness: the flush of a round in which one worker raised and another
\* worker completed and recorded its outcome.
C12_Witness ==
  /\ mainPc = "save_write"
  /\ \E i, j \in Workers :
       /\ w[i].raised /\ w[i].pc = "done"
       /\ ~w[j].raised /\ w[j].pc = "done" /\ w[j].appends = 1

\* C18: for every interleaving of concurrent log_result calls at most one
\* file handler is ever attached to a server's logger, and the server's log
\* receives exactly one line per check execution, also when two workers of
\* one server log for the first time concurrently.
C18_OneLinePerExecution ==
  /\ \A s \in DOMAIN logger_handlers : logger_handlers[s] <= 1
  /\ \A i \in Workers :
       /\ w[i].lines <= 1
       /\ w[i].pc \in {"log_test", "log_init", "log_append"} => w[i].lines = 1

\* C21: each run_check execution dispatches at most one escalation; failure
\* and warning exclude each other: a non-resource check whose check()
\* returned false is escalated once, as a failure, and never as a warning,
\* also when its response_time() reached response_time_limit.
C21_AtMostOneEscalation ==
  \A i \in Workers :
    /\ w[i].escalations <= 1
    /\ w[i].escalations = 1 <=> w[i].escalation # "none"
    /\ (NonResource(i) /\ w[i].checkRet = "false" /\ w[i].probed
          /\ OverLimit(w[i].rt) /\ w[i].pc \in {"notify", "move_step1",
                                               "move_step2", "move_send", "done"})
         => (w[i].escalation = "failure" /\ w[i].escalations = 1
               /\ w[i].strategy # "notify_warning")

\* C21 witness: a port or ping check that failed and whose response time
\* reached the limit ended with the failure handler called, and only it.
C21_Witness ==
  \E i \in Workers :
    /\ NonResource(i) /\ w[i].checkRet = "false" /\ OverLimit(w[i].rt)
    /\ w[i].pc = "done" /\ w[i].recorded = "Failure"
    /\ w[i].escalation = "failure" /\ w[i].escalations = 1
    /\ w[i].handled /\ w[i].strategy = "notify_failure"
    /\ w[i].broadcasts = 1

====
